---- MODULE Spec2Model ----
(***************************************************************************)
(* BXAssist: signed-link attendance gate, attendance ledger, reminder      *)
(* queue and the daily reminder scheduler.                                 *)
(*                                                                         *)
(* Every `await` of a handler that reads or writes a shared store (the     *)
(* Attendance sheet, the AttendanceReminderQueue sheet, Slack's scheduled  *)
(* messages) is one step, so that concurrent requests interleave exactly   *)
(* where the code can be pre-empted.  Calls without modelled shared state  *)
(* (users.info, conversations.open, chat.postMessage) are folded into the  *)
(* neighbouring step together with their failure outcome.                  *)
(*                                                                         *)
(* Texts are sequences of one-character strings.  Instants are integers    *)
(* (milliseconds in the signature specification, clock ticks of TickMs     *)
(* milliseconds in the system specification).                              *)
(***************************************************************************)
EXTENDS Integers, Sequences, FiniteSets, TLC

VARIABLES
  now,          \* wall clock of the system specification, in ticks
  attendance,   \* rows of the Attendance sheet below its header
  queue,        \* rows of the AttendanceReminderQueue sheet below its header
  slack,        \* Slack's scheduled messages: handle -> record
  req,          \* check-in / checkout requests: id -> handler state
  out,          \* the request that returned last, as it returned
  fresh,        \* user -> requests that saw their check-in recorded afresh
  run,          \* scheduler runs: id -> handler state
  sigSecret,    \* signature specification: ATTENDANCE_SIGNING_SECRET
  sigNow,       \* signature specification: Date.now(), milliseconds
  sigIssued,    \* signature specification: the token last issued
  sigInput,     \* signature specification: the parameters last verified
  sigSteps,     \* signature specification: clock advances so far
  sigResult,    \* signature specification: what verification did
  ipInput,      \* network-gate specification: the request and the allowlist
  ipClient,     \* network-gate specification: what getClientIp returned
  ipAllowed,    \* network-gate specification: what isIpAllowed returned
  settings,     \* rows of the Settings sheet below its header
  admin,        \* the reminder-settings request: handler state
  fmtInput,     \* duration specification: totalMs of a checkout
  fmtResult,    \* duration specification: what formatTotalHours returned
  ledgers,      \* request sheets: kind -> rows below the header
  decider,      \* the decision call in progress or returned last
  cronLogs,     \* rows of the CronLogs sheet below its header
  posts,        \* reminders posted to the daily-report channel: their dates
  reporter      \* the daily-report-reminder request: handler state

vars == <<now, attendance, queue, slack, req, out, fresh, run,
          sigSecret, sigNow, sigSteps, sigIssued, sigInput, sigResult,
          ipInput, ipClient, ipAllowed, settings, admin,
          fmtInput, fmtResult, ledgers, decider, cronLogs, posts, reporter>>

sysVars == <<now, attendance, queue, slack, req, out, fresh, run>>
sigVars == <<sigSecret, sigNow, sigSteps, sigIssued, sigInput, sigResult>>
ipVars == <<ipInput, ipClient, ipAllowed>>
adminVars == <<settings, admin>>
fmtVars == <<fmtInput, fmtResult>>
decVars == <<ledgers, decider>>
cronVars == <<cronLogs, posts, reporter>>

(***************************************************************************)
(* Bounds of the model.                                                    *)
(***************************************************************************)
MaxReq == 2        \* check-in / checkout requests per behaviour
MaxClock == 1      \* last tick of the system clock
MaxRuns == 1       \* scheduler runs in flight at a time
MaxMsgs == 2       \* messages ever scheduled with Slack
MaxAdvance == 2    \* clock advances in the signature specification
MaxHeader == 4     \* characters of an x-forwarded-for header
MaxHours == 2      \* whole hours of a formatted duration
MaxDecisions == 3  \* decision calls per behaviour
MaxCronCalls == 3  \* daily-report-reminder invocations per behaviour

Users == {"U1", "U2"}
Roster == <<"U1", "U2">>      \* conversations.members of the attendance channel
ReqIds == 1..MaxReq
RunIds == 1..MaxRuns

(***************************************************************************)
(* Texts.                                                                  *)
(***************************************************************************)
NullText == <<"null">>         \* JS null (no text has a character "null")
Falsy(s) == s = NullText \/ s = <<>>

RECURSIVE SplitComma(_)
SplitComma(s) ==
  IF \A i \in 1..Len(s) : s[i] # ","
    THEN <<s>>
    ELSE LET k == CHOOSE i \in 1..Len(s) :
                    s[i] = "," /\ \A j \in 1..(i - 1) : s[j] # ","
         IN  <<SubSeq(s, 1, k - 1)>> \o SplitComma(SubSeq(s, k + 1, Len(s)))

RECURSIVE TrimLeft(_)
TrimLeft(s) == IF s # <<>> /\ Head(s) = " " THEN TrimLeft(Tail(s)) ELSE s

RECURSIVE TrimRight(_)
TrimRight(s) ==
  IF s # <<>> /\ s[Len(s)] = " " THEN TrimRight(SubSeq(s, 1, Len(s) - 1)) ELSE s

Trim(s) == TrimRight(TrimLeft(s))

RECURSIVE MapTrim(_)
MapTrim(ss) == IF ss = <<>> THEN <<>> ELSE <<Trim(Head(ss))>> \o MapTrim(Tail(ss))

RECURSIVE FilterNonEmpty(_)
FilterNonEmpty(ss) ==
  IF ss = <<>> THEN <<>>
  ELSE IF Len(Head(ss)) > 0 THEN <<Head(ss)>> \o FilterNonEmpty(Tail(ss))
  ELSE FilterNonEmpty(Tail(ss))

Includes(ss, s) == \E i \in 1..Len(ss) : ss[i] = s

(***************************************************************************)
(* lib/attendanceSecurity: signed links.                                   *)
(***************************************************************************)
MaxAgeMs == 10 * 60 * 1000
DigestLen == 64               \* hex digits of a SHA-256 digest

NoSecret == "unset"
TheSecret == "k"
OtherSecret == "k2"

\* A timestamp text and Number() of it.  "dec" is the canonical decimal text
\* Date.now().toString() produces, "alt" another text Number() reads as the
\* same number ("0600000", "6e5", " 600000"), "nan" a text Number() reads as
\* NaN, "empty" the empty text, which Number() reads as 0.
TsDec(n) == [kind |-> "dec", n |-> n]
TsAlt(n) == [kind |-> "alt", n |-> n]
TsNaN == [kind |-> "nan", n |-> 0]
TsEmpty == [kind |-> "empty", n |-> 0]
IsNaN(ts) == ts.kind = "nan"
NumberOf(ts) == ts.n

\* `${type}:${slackUserId}:${ts}`
Payload(type, slackUserId, ts) == [type |-> type, u |-> slackUserId, ts |-> ts]

\* crypto.createHmac('sha256', key).update(payload).digest('hex'): an ideal
\* MAC, equal only for equal key and payload, DigestLen characters long.
\* `flip` is 0 for the digest itself; a tampered text differs in `flip`.
Hmac(key, payload) ==
  [len |-> DigestLen, key |-> key, payload |-> payload, flip |-> 0]

\* crypto.timingSafeEqual(Buffer.from(a), Buffer.from(b)): a RangeError when
\* the byte lengths differ.
timingSafeEqual(a, b) ==
  IF a.len # b.len THEN "throw" ELSE IF a = b THEN "true" ELSE "false"

APP_BASE_URL == <<"h">>

generateSignedAttendanceUrl(secret, type, slackUserId, nowMs) ==
  IF secret = NoSecret \/ Falsy(APP_BASE_URL)
    THEN [ok |-> FALSE, type |-> type, u |-> slackUserId, ts |-> TsDec(nowMs),
          sig |-> Hmac(NoSecret, Payload(type, slackUserId, TsDec(nowMs)))]
    ELSE [ok |-> TRUE, type |-> type, u |-> slackUserId, ts |-> TsDec(nowMs),
          sig |-> Hmac(secret, Payload(type, slackUserId, TsDec(nowMs)))]

\* Variant that refuses a link of exactly MaxAgeMs.
AgeAtLimit(ts, nowMs) == ~IsNaN(ts) /\ nowMs - NumberOf(ts) >= MaxAgeMs

AgeExpired(ts, nowMs) == ~IsNaN(ts) /\ nowMs - NumberOf(ts) > MaxAgeMs
AgeFuture(ts, nowMs) == ~IsNaN(ts) /\ nowMs - NumberOf(ts) < 0

verifySignedAttendanceRequest(secret, type, slackUserId, ts, sig, nowMs) ==
  IF secret = NoSecret THEN "false"
  ELSE IF AgeExpired(ts, nowMs) THEN "false"
  ELSE IF AgeFuture(ts, nowMs) THEN "false"
  ELSE timingSafeEqual(Hmac(secret, Payload(type, slackUserId, ts)), sig)

(***************************************************************************)
(* lib/attendanceSecurity: network gate.                                   *)
(***************************************************************************)
OFFICE_IP_ALLOWLIST == <<"a", ",", " ", "b", ",">>     \* "a, b,"

\* Variant that takes the nearest proxy's entry of the chain.
getLastIp(fwd, reqIp) ==
  IF ~Falsy(fwd) THEN Trim(SplitComma(fwd)[Len(SplitComma(fwd))]) ELSE reqIp

\* req.headers.get('x-forwarded-for'), then req.ip
getClientIp(fwd, reqIp) ==
  IF ~Falsy(fwd) THEN Trim(SplitComma(fwd)[1]) ELSE reqIp

allowedIpsOf(list) == FilterNonEmpty(MapTrim(SplitComma(list)))

\* Variant that admits any address that is present.
isIpPresent(ip, list) == ~Falsy(ip)

\* Variant that compares with the entries as they stand between the commas.
isIpListed(ip, list) ==
  IF Falsy(ip) THEN FALSE
  ELSE IF Falsy(list) THEN FALSE
  ELSE Includes(SplitComma(list), ip)

isIpAllowed(ip, list) ==
  IF Falsy(ip) THEN FALSE
  ELSE IF Falsy(list) THEN FALSE
  ELSE IF Len(allowedIpsOf(list)) = 0 THEN FALSE
  ELSE Includes(allowedIpsOf(list), ip)

(***************************************************************************)
(* lib/timePk, lib/pkTime: Asia/Karachi date and time of an instant.       *)
(***************************************************************************)
TickMs == MaxAgeMs            \* one clock tick of the system specification
DayTicks == MaxClock + 1      \* ticks per civil day: the clock stays within today
StartOfDay == DayTicks        \* first tick of today; yesterday's ticks are below
Empty == -1                   \* an empty cell ('')

nowPk(t) == [nowIso |-> t, datePk |-> t \div DayTicks, timePk |-> t % DayTicks]
getPkDateStr(t) == t \div DayTicks

\* formatTotalHours(totalMs / 3600000): hours and rounded minutes; a text
\* without a minutes part is m = 0.
formatTotalHours(totalMs) ==
  LET hours == totalMs \div 3600000
      minutes == ((totalMs - hours * 3600000) + 30000) \div 60000
  IN  [h |-> hours, m |-> minutes]

EmptyTotal == [h |-> Empty, m |-> Empty]

(***************************************************************************)
(* lib/googleSheets: the Attendance sheet.                                 *)
(***************************************************************************)
\* Columns A..H of one row.
AttRow(date, user, name, cin, cout, total, first, last) ==
  [date |-> date, user |-> user, name |-> name, cin |-> cin, cout |-> cout,
   total |-> total, first |-> first, last |-> last]

BlankRow == AttRow(Empty, "", "", Empty, Empty, EmptyTotal, Empty, Empty)

\* Variant that tests column E (check-out time) instead of column D.
CheckOutMatch(row, datePk, slackUserId) ==
  row.date = datePk /\ row.user = slackUserId /\ row.cout # Empty

\* row[0] === datePk && row[1] === slackUserId && row[3]
CheckInMatch(row, datePk, slackUserId) ==
  row.date = datePk /\ row.user = slackUserId /\ row.cin # Empty

\* Variant that matches the user's check-in row of any day.
FindAnyDay(rows, datePk, slackUserId) ==
  IF \E i \in 1..Len(rows) : rows[i].user = slackUserId /\ rows[i].cin # Empty
    THEN CHOOSE i \in 1..Len(rows) : rows[i].user = slackUserId /\ rows[i].cin # Empty
    ELSE 0

\* 0 when no row matches, else the index (from 1) of the first matching row
FindCheckIn(rows, datePk, slackUserId) ==
  IF \E i \in 1..Len(rows) : CheckInMatch(rows[i], datePk, slackUserId)
    THEN CHOOSE i \in 1..Len(rows) :
           /\ CheckInMatch(rows[i], datePk, slackUserId)
           /\ \A j \in 1..(i - 1) : ~CheckInMatch(rows[j], datePk, slackUserId)
    ELSE 0

\* The row recordCheckIn appends.
CheckInRow(t, slackUserId, employeeName) ==
  AttRow(nowPk(t).datePk, slackUserId, employeeName, nowPk(t).timePk,
         Empty, EmptyTotal, nowPk(t).nowIso, Empty)

\* Variant that addresses the row below.
SheetRowBelow(j) == j + 2

\* foundRowIndex = i + 2 for the 0-based i of `rows`; here for the 1-based j
SheetRow(j) == (j - 1) + 2
\* the row of `rows` (from 1) a range A<n>:H<n> addresses
RangeRow(n) == n - 1

\* Variant that never sees a check-out time.
NeverCheckedOut(row) == FALSE

\* if (row[4]): the row already has a check-out time
AlreadyCheckedOut(row) == row.cout # Empty

\* The row recordCheckOut writes back: the row as read, E, F and H filled.
CheckOutRow(row, t) ==
  LET firstCheckInTimestamp == IF row.first # Empty THEN row.first ELSE nowPk(t).nowIso
      totalMs == (nowPk(t).nowIso - firstCheckInTimestamp) * TickMs
  IN  [row EXCEPT !.cout = nowPk(t).timePk,
                  !.total = formatTotalHours(totalMs),
                  !.last = nowPk(t).nowIso]

\* values.update of row n, a row that was read (rows are never removed)
UpdateRow(rows, n, row) ==
  IF RangeRow(n) \in 1..Len(rows) THEN [rows EXCEPT ![RangeRow(n)] = row]
  ELSE rows

(***************************************************************************)
(* lib/googleSheets: the AttendanceReminderQueue sheet.                    *)
(***************************************************************************)
QRow(date, user, im, msg, postAt, status) ==
  [date |-> date, user |-> user, im |-> im, msg |-> msg, postAt |-> postAt,
   status |-> status]

NoReminder == QRow(Empty, "", "", 0, 0, "none")

QueueMatch(row, datePk, slackUserId) ==
  row.date = datePk /\ row.user = slackUserId

FindQueue(rows, datePk, slackUserId) ==
  IF \E i \in 1..Len(rows) : QueueMatch(rows[i], datePk, slackUserId)
    THEN CHOOSE i \in 1..Len(rows) :
           /\ QueueMatch(rows[i], datePk, slackUserId)
           /\ \A j \in 1..(i - 1) : ~QueueMatch(rows[j], datePk, slackUserId)
    ELSE 0

\* findReminderForUser: the first matching row, or null (NoReminder)
findReminderForUser(rows, datePk, slackUserId) ==
  IF FindQueue(rows, datePk, slackUserId) = 0 THEN NoReminder
  ELSE rows[FindQueue(rows, datePk, slackUserId)]

\* markReminderStatus writes column F of the row it found
MarkStatus(rows, n, status) ==
  IF RangeRow(n) \in 1..Len(rows)
    THEN [rows EXCEPT ![RangeRow(n)].status = status]
    ELSE rows

\* upsertReminderQueueRow writes the whole row it found, or appends
UpsertWrite(rows, n, row) ==
  IF n # 0 THEN UpdateRow(rows, n, row) ELSE Append(rows, row)

(***************************************************************************)
(* Slack: direct-message channels and scheduled messages.                  *)
(***************************************************************************)
ImChannel(u) == <<"D", u>>
SLACK_ATTENDANCE_CHANNEL_ID == "C_ATT"

\* chat.deleteScheduledMessage succeeds for a pending message of the channel
CanDelete(msgs, channel, id) ==
  /\ id \in 1..Len(msgs)
  /\ msgs[id].channel = channel
  /\ msgs[id].state = "pending"

(***************************************************************************)
(* app/api/attendance/checkin and checkout: the request handlers.          *)
(***************************************************************************)
TokenCases ==
  {"valid", "expired", "otherUser", "otherAction", "flippedSig", "shortSig",
   "forged", "nanTs", "noSig"}
\* x-forwarded-for headers: "a", "c,a", and none
ForwardedHeaders == {<<"a">>, <<"c", ",", "a">>, NullText}
OfficeHeaders == {<<"a">>}

Other(kind) == IF kind = "checkin" THEN "checkout" ELSE "checkin"
OtherUser(u) == CHOOSE v \in Users : v # u

EmptySig == [len |-> 0, key |-> NoSecret, payload |-> Payload("", "", TsEmpty),
             flip |-> 0]

\* The link a caller opens: u, ts and sig of the query string.  `issuedAt` is
\* the tick at which the link it derives from was generated.
Link(case, kind, u, issuedAt) ==
  LET good == generateSignedAttendanceUrl(TheSecret, kind, u, issuedAt * TickMs)
      forU == generateSignedAttendanceUrl(TheSecret, kind, OtherUser(u),
                                          issuedAt * TickMs)
      forA == generateSignedAttendanceUrl(TheSecret, Other(kind), u,
                                          issuedAt * TickMs)
      fake == generateSignedAttendanceUrl(OtherSecret, kind, u, issuedAt * TickMs)
  IN  CASE case = "otherUser" -> [u |-> u, ts |-> forU.ts, sig |-> forU.sig]
        [] case = "otherAction" -> [u |-> u, ts |-> forA.ts, sig |-> forA.sig]
        [] case = "flippedSig" ->
             [u |-> u, ts |-> good.ts, sig |-> [good.sig EXCEPT !.flip = 1]]
        [] case = "shortSig" ->
             [u |-> u, ts |-> good.ts,
              sig |-> [good.sig EXCEPT !.len = DigestLen - 1, !.flip = 1]]
        [] case = "forged" -> [u |-> u, ts |-> fake.ts, sig |-> fake.sig]
        [] case = "nanTs" -> [u |-> u, ts |-> TsNaN, sig |-> good.sig]
        [] case = "noSig" -> [u |-> u, ts |-> good.ts, sig |-> EmptySig]
        [] OTHER -> [u |-> u, ts |-> good.ts, sig |-> good.sig]

\* The ticks at which a link of the case may have been generated.
IssueTicks(case, t) ==
  CASE case = "expired" -> {t - 2}
    [] case = "valid" -> {t - 1, t}
    [] OTHER -> {t}

\* The handler's gate: "pass", "invalid" (rejection page), "network"
\* (rejection page naming the address) or "throw" (the outer catch).
Gate(kind, link, fwd, t) ==
  IF link.u = "" \/ link.ts = TsEmpty \/ link.sig = EmptySig THEN "invalid"
  ELSE LET v == verifySignedAttendanceRequest(TheSecret, kind, link.u, link.ts,
                                              link.sig, t * TickMs)
       IN  IF v = "throw" THEN "throw"
           ELSE IF v # "true" THEN "invalid"
           ELSE IF ~isIpAllowed(getClientIp(fwd, NullText), OFFICE_IP_ALLOWLIST)
             THEN "network"
           ELSE "pass"

\* The gate's answer for every link, header and clock reading a request can
\* arrive with.
GateAt ==
  [t \in StartOfDay..(StartOfDay + DayTicks) |->
    [kind \in {"checkin", "checkout"} |->
      [case \in TokenCases |->
        [u \in Users |->
          [fwd \in ForwardedHeaders |->
            [issuedAt \in (t - 2)..t |->
               Gate(kind, Link(case, kind, u, issuedAt), fwd, t)]]]]]]

IdleReq ==
  [pc |-> "idle", kind |-> "none", u |-> "", auth |-> "none",
   t |-> Empty, date2 |-> Empty, idx |-> 0, row |-> BlankRow,
   rem |-> NoReminder, resp |-> "none", status |-> Empty, shown |-> Empty,
   total |-> EmptyTotal, created |-> FALSE,
   wrote |-> 0, qwrote |-> 0, deletes |-> <<>>, posts |-> 0,
   remFail |-> FALSE, marked |-> "none"]

\* The handler returned: its locals are gone.
Done(rec, resp) ==
  [rec EXCEPT !.pc = "done", !.resp = resp, !.t = Empty, !.date2 = Empty,
              !.idx = 0, !.row = BlankRow]

DoneReq == Done(IdleReq, "sent")

\* Request r goes on with `rec`.
Goes(r, rec) ==
  /\ req' = [req EXCEPT ![r] = rec]
  /\ UNCHANGED out

\* html(body): the page `body` in the document frame, with status 200.
html(rec, body) == [Done(rec, body) EXCEPT !.status = 200]

\* Request r returns the page `resp`.
Returns(r, rec, resp) ==
  /\ req' = [req EXCEPT ![r] = DoneReq]
  /\ out' = html(rec, resp)

\* Variant without the outer catch: the failure leaves the handler and the
\* framework answers for it.
Uncaught(r, rec) ==
  /\ req' = [req EXCEPT ![r] = DoneReq]
  /\ out' = [Done(rec, "exception") EXCEPT !.status = 500]

\* The outer catch: the failure is logged and the error page returns.
Caught(r, rec) == Returns(r, rec, "error")

\* chat.postMessage to the attendance channel, then the success page; a
\* failed post reaches the outer catch.
Finish(r, rec) ==
  IF SLACK_ATTENDANCE_CHANNEL_ID = ""
    THEN Returns(r, [rec EXCEPT !.shown = nowPk(now).timePk], "success")
    ELSE \/ Returns(r, [rec EXCEPT !.shown = nowPk(now).timePk,
                                   !.posts = rec.posts + 1], "success")
         \/ Caught(r, [rec EXCEPT !.posts = rec.posts + 1])

\* Variant without the catch blocks: the failure reaches the outer catch.
CancelRethrown(r, rec) == Caught(r, [rec EXCEPT !.remFail = TRUE])

\* The catch blocks around the reminder cancellation: the failure is logged
\* and the handler goes on to the announcement.
CancelFailed(r, rec) == Finish(r, [rec EXCEPT !.remFail = TRUE])

\* `auth` records what the caller presented: "ok" for an untampered link of
\* this action and user, at most MaxAgeMs old, opened from an office address.
Presented(case, fwd) ==
  IF case # "valid" THEN "badToken"
  ELSE IF fwd \notin OfficeHeaders THEN "badIp"
  ELSE "ok"

\* A request arrives: gate, users.info, and the first lines of recordCheckIn /
\* recordCheckOut, which read the clock.
ArriveOf(r, kinds, cases, headers) ==
  /\ req[r].pc = "idle"
  /\ \A q \in ReqIds : q < r => req[q].pc # "idle"
  /\ \E kind \in kinds, u \in Users, case \in cases, fwd \in headers :
       \E issuedAt \in IssueTicks(case, now) :
         LET g == GateAt[now][kind][case][u][fwd][issuedAt]
             rec == [IdleReq EXCEPT !.kind = kind, !.u = u,
                                    !.auth = Presented(case, fwd)]
         IN  \/ /\ g = "throw"
                /\ Caught(r, rec)
             \/ /\ g = "invalid"
                /\ Returns(r, rec, "invalid")
             \/ /\ g = "network"
                /\ Returns(r, rec, "network")
             \/ /\ g = "pass"
                /\ \/ Goes(r, [rec EXCEPT !.t = now,
                         !.pc = IF kind = "checkin" THEN "ciRead" ELSE "coRead"])
                   \/ Caught(r, rec)
  /\ UNCHANGED <<now, attendance, queue, slack, fresh, run>>

Arrive(r) == ArriveOf(r, {"checkin", "checkout"}, TokenCases, ForwardedHeaders)
\* A checkout link opened from the office.
ArriveCheckOut(r) == ArriveOf(r, {"checkout"}, {"valid"}, OfficeHeaders)

\* The one reminder link opened from the office while the scheduler is at work.
ArriveCheckIn(r) ==
  /\ \A q \in ReqIds : req[q].pc = "idle"
  /\ ArriveOf(r, {"checkin"}, {"valid"}, OfficeHeaders)

\* Variant that goes on to the reminder although the row was there already.
AlreadyRetries(r, rec) ==
  Goes(r, [rec EXCEPT !.pc = "ciFind", !.date2 = getPkDateStr(now)])

\* if (result.alreadyCheckedIn): the page naming the recorded time; stop
AlreadyCheckedIn(r, rec) == Returns(r, rec, "already")

\* recordCheckIn: values.get answered
CiRead(r) ==
  /\ req[r].pc = "ciRead"
  /\ LET rec == req[r]
         j == FindCheckIn(attendance, nowPk(rec.t).datePk, rec.u)
     IN  \/ /\ j # 0
            /\ AlreadyCheckedIn(r, [rec EXCEPT !.shown = attendance[j].cin])
         \/ /\ j = 0
            /\ Goes(r, [rec EXCEPT !.pc = "ciAppend"])
         \/ Caught(r, rec)
  /\ UNCHANGED <<now, attendance, queue, slack, fresh, run>>

\* recordCheckIn: values.append answered; the handler then reads today's date
CiAppend(r) ==
  /\ req[r].pc = "ciAppend"
  /\ \/ /\ attendance' = Append(attendance, CheckInRow(req[r].t, req[r].u, req[r].u))
        /\ fresh' = [fresh EXCEPT ![req[r].u] = @ + 1]
        /\ Goes(r, [req[r] EXCEPT !.pc = "ciFind", !.created = TRUE,
                      !.wrote = req[r].wrote + 1, !.date2 = getPkDateStr(now)])
     \/ /\ Caught(r, req[r])
        /\ UNCHANGED <<attendance, fresh>>
  /\ UNCHANGED <<now, queue, slack, run>>

\* findReminderForUser answered
CiFind(r) ==
  /\ req[r].pc = "ciFind"
  /\ \/ LET rem == findReminderForUser(queue, req[r].date2, req[r].u)
        IN  IF rem # NoReminder /\ rem.status = "scheduled"
              THEN Goes(r, [req[r] EXCEPT !.pc = "ciDelete", !.rem = rem])
              ELSE Finish(r, [req[r] EXCEPT !.rem = rem])
     \/ CancelFailed(r, req[r])
  /\ UNCHANGED <<now, attendance, queue, slack, fresh, run>>

\* chat.deleteScheduledMessage answered
CiDelete(r) ==
  /\ req[r].pc = "ciDelete"
  /\ LET rec == [req[r] EXCEPT !.deletes =
                   Append(req[r].deletes, <<req[r].rem.im, req[r].rem.msg>>)]
     IN  \/ /\ CanDelete(slack, rec.rem.im, rec.rem.msg)
            /\ slack' = [slack EXCEPT ![rec.rem.msg].state = "deleted"]
            /\ Goes(r, [rec EXCEPT !.pc = "ciMarkRead"])
         \/ /\ CancelFailed(r, rec)
            /\ UNCHANGED slack
  /\ UNCHANGED <<now, attendance, queue, fresh, run>>

\* markReminderStatus: values.get answered
CiMarkRead(r) ==
  /\ req[r].pc = "ciMarkRead"
  /\ \/ LET j == FindQueue(queue, req[r].date2, req[r].u)
        IN  IF j # 0
              THEN Goes(r, [req[r] EXCEPT !.pc = "ciMarkWrite", !.idx = SheetRow(j)])
              ELSE CancelFailed(r, req[r])
     \/ CancelFailed(r, req[r])
  /\ UNCHANGED <<now, attendance, queue, slack, fresh, run>>

\* markReminderStatus: values.update answered
CiMarkWrite(r) ==
  /\ req[r].pc = "ciMarkWrite"
  /\ \/ /\ queue' = MarkStatus(queue, req[r].idx, "cancelled")
        /\ Finish(r, [req[r] EXCEPT !.qwrote = req[r].qwrote + 1,
              !.marked = findReminderForUser(queue', req[r].date2, req[r].u).status])
     \/ /\ CancelFailed(r, req[r])
        /\ UNCHANGED queue
  /\ UNCHANGED <<now, attendance, slack, fresh, run>>

\* recordCheckOut: values.get answered
CoRead(r) ==
  /\ req[r].pc = "coRead"
  /\ LET rec == req[r]
         j == FindCheckIn(attendance, nowPk(rec.t).datePk, rec.u)
     IN  \/ /\ j = 0
            /\ Returns(r, rec, "noCheckIn")
         \/ /\ j # 0
            /\ AlreadyCheckedOut(attendance[j])
            /\ Returns(r, [rec EXCEPT !.shown = attendance[j].cout,
                                      !.total = attendance[j].total], "alreadyOut")
         \/ /\ j # 0
            /\ ~AlreadyCheckedOut(attendance[j])
            /\ Goes(r, [rec EXCEPT !.pc = "coUpdate", !.idx = SheetRow(j),
                                   !.row = CheckOutRow(attendance[j], rec.t)])
         \/ Caught(r, rec)
  /\ UNCHANGED <<now, attendance, queue, slack, fresh, run>>

\* recordCheckOut: values.update answered, then the announcement
CoUpdate(r) ==
  /\ req[r].pc = "coUpdate"
  /\ \/ /\ attendance' = UpdateRow(attendance, req[r].idx, req[r].row)
        /\ Finish(r, [req[r] EXCEPT !.created = TRUE, !.wrote = req[r].wrote + 1,
                                    !.total = req[r].row.total])
     \/ /\ Caught(r, req[r])
        /\ UNCHANGED attendance
  /\ UNCHANGED <<now, queue, slack, fresh, run>>

Tick ==
  /\ now < StartOfDay + MaxClock
  /\ now' = now + 1
  /\ UNCHANGED <<attendance, queue, slack, req, out, fresh, run>>

(***************************************************************************)
(* app/api/cron/schedule-checkin-reminders: the daily scheduler.           *)
(***************************************************************************)
DefaultReminderTick == 1      \* '09:10' as a tick of the day

\* pkTimeToUtcEpochSeconds(datePk, hhmm)
pkTimeToUtcEpochSeconds(datePk, hhmm) == datePk * DayTicks + hhmm

\* The Settings sheet: rows of key and value.
ReminderTimeKey == "attendanceReminderTime"
SettingRow(key, value) == [key |-> key, value |-> value]

FindSetting(rows, key) ==
  IF \E i \in 1..Len(rows) : rows[i].key = key
    THEN CHOOSE i \in 1..Len(rows) :
           rows[i].key = key /\ \A j \in 1..(i - 1) : rows[j].key # key
    ELSE 0

\* getSetting: the value of the first row with the key, or null (Empty)
getSetting(rows, key) ==
  IF FindSetting(rows, key) = 0 THEN Empty ELSE rows[FindSetting(rows, key)].value

\* (await getSetting('attendanceReminderTime')) || '09:10'
reminderTimeOf(rows) ==
  IF getSetting(rows, ReminderTimeKey) = Empty THEN DefaultReminderTick
  ELSE getSetting(rows, ReminderTimeKey)

IdleRun ==
  [pc |-> "idle", auth |-> "none", i |-> 1, datePk |-> Empty, postAt |-> Empty,
   msg |-> 0, idx |-> 0, scheduled |-> 0, skipped |-> 0, errors |-> 0,
   resp |-> "none"]

\* The key parameter and CRON_SECRET of a cron request: the configured secret
\* presented, no key, another key, and the secret not configured (with a key,
\* with an empty key, without one).
CRON_SECRET == <<"s">>
KeyCases == {"good", "missing", "wrong", "unset", "unsetEmpty"}
KeyOf(case) ==
  CASE case \in {"good", "unset"} -> CRON_SECRET
    [] case = "wrong" -> <<"x">>
    [] case = "unsetEmpty" -> <<>>
    [] OTHER -> NullText
SecretOf(case) ==
  CASE case = "unset" -> NullText
    [] case = "unsetEmpty" -> <<>>
    [] OTHER -> CRON_SECRET

\* Variant that admits any key that is present.
CronKeyPresent(key, cronSecret) == ~Falsy(key)

\* the negation of: !cronSecret || key !== cronSecret
CronAuthorized(key, cronSecret) == ~Falsy(cronSecret) /\ key = cronSecret

\* the loop's next iteration, or the JSON answer after the last member
NextMember(rec) ==
  IF rec.i < Len(Roster)
    THEN [rec EXCEPT !.i = rec.i + 1, !.pc = "find", !.msg = 0, !.idx = 0]
    ELSE [rec EXCEPT !.i = rec.i + 1, !.pc = "done", !.msg = 0, !.idx = 0,
                     !.resp = "ok"]

\* Variant in which a member's failure ends the run with the 500 answer.
MemberAbort(rec) == [rec EXCEPT !.pc = "done", !.resp = "500"]

\* catch (error): errorCount++, and the paths that count an error and continue
MemberError(rec) == NextMember([rec EXCEPT !.errors = rec.errors + 1])
\* Variant that passes over a scheduled member without counting it.
MemberPassed(rec) == NextMember(rec)

MemberSkipped(rec) == NextMember([rec EXCEPT !.skipped = rec.skipped + 1])
MemberScheduled(rec) == NextMember([rec EXCEPT !.scheduled = rec.scheduled + 1])

\* Variant that never skips.
NeverScheduled(existing) == FALSE

\* existing && existing.status === 'scheduled'
AlreadyScheduled(existing) == existing # NoReminder /\ existing.status = "scheduled"

\* The cron request: key check, getSetting, today's date and target instant,
\* conversations.members.
RunStart(k) ==
  /\ run[k].pc \in {"idle", "done"}
  /\ \A q \in RunIds : q < k => run[q].pc # "idle"
  /\ \E o \in {<<IF case = "good" THEN "ok" ELSE "badKey",
                   CronAuthorized(KeyOf(case), SecretOf(case))>> :
                 case \in KeyCases} :
       LET rec == [IdleRun EXCEPT !.auth = o[1]]
       IN  IF ~o[2]
             THEN run' = [run EXCEPT ![k] = [rec EXCEPT !.pc = "done",
                                                        !.resp = "401"]]
             ELSE \/ run' = [run EXCEPT ![k] = [rec EXCEPT !.pc = "done",
                                                          !.resp = "500"]]
                  \/ run' = [run EXCEPT ![k] =
                       [rec EXCEPT !.pc = "find", !.datePk = getPkDateStr(now),
                          !.postAt = pkTimeToUtcEpochSeconds(getPkDateStr(now),
                                                    reminderTimeOf(settings))]]
  /\ UNCHANGED <<now, attendance, queue, slack, req, out, fresh>>

\* findReminderForUser answered for the current member
RunFind(k) ==
  /\ run[k].pc = "find"
  /\ \/ LET existing == findReminderForUser(queue, run[k].datePk, Roster[run[k].i])
        IN  run' = [run EXCEPT ![k] =
                IF AlreadyScheduled(existing) THEN MemberSkipped(run[k])
                ELSE [run[k] EXCEPT !.pc = "schedule"]]
     \/ run' = [run EXCEPT ![k] = MemberError(run[k])]
  /\ UNCHANGED <<now, attendance, queue, slack, req, out, fresh>>

\* conversations.open and chat.scheduleMessage answered
RunSchedule(k) ==
  /\ run[k].pc = "schedule"
  /\ \/ /\ Len(slack) < MaxMsgs
        /\ slack' = Append(slack, [channel |-> ImChannel(Roster[run[k].i]),
                                   postAt |-> run[k].postAt, state |-> "pending"])
        /\ run' = [run EXCEPT ![k] = [run[k] EXCEPT !.pc = "upsertRead",
                                                   !.msg = Len(slack) + 1]]
     \/ /\ run' = [run EXCEPT ![k] = MemberError(run[k])]
        /\ UNCHANGED slack
  /\ UNCHANGED <<now, attendance, queue, req, out, fresh>>

\* upsertReminderQueueRow: values.get answered
RunUpsertRead(k) ==
  /\ run[k].pc = "upsertRead"
  /\ \/ LET j == FindQueue(queue, run[k].datePk, Roster[run[k].i])
        IN  run' = [run EXCEPT ![k] = [run[k] EXCEPT !.pc = "upsertWrite",
                      !.idx = IF j = 0 THEN 0 ELSE SheetRow(j)]]
     \/ run' = [run EXCEPT ![k] = MemberError(run[k])]
  /\ UNCHANGED <<now, attendance, queue, slack, req, out, fresh>>

\* Variant that derives the date and the instant anew for each member.
EntryDerivedAnew(rec) ==
  QRow(getPkDateStr(now), Roster[rec.i], ImChannel(Roster[rec.i]), rec.msg,
       pkTimeToUtcEpochSeconds(getPkDateStr(now), reminderTimeOf(settings)),
       "scheduled")

\* the arguments of upsertReminderQueueRow: the run's datePk and postAt
EntryOfRun(rec) ==
  QRow(rec.datePk, Roster[rec.i], ImChannel(Roster[rec.i]), rec.msg,
       rec.postAt, "scheduled")

\* upsertReminderQueueRow: values.update or values.append answered
RunUpsertWrite(k) ==
  /\ run[k].pc = "upsertWrite"
  /\ \/ /\ queue' = UpsertWrite(queue, run[k].idx, EntryOfRun(run[k]))
        /\ run' = [run EXCEPT ![k] = MemberScheduled(run[k])]
     \/ /\ run' = [run EXCEPT ![k] = MemberError(run[k])]
        /\ UNCHANGED queue
  /\ UNCHANGED <<now, attendance, slack, req, out, fresh>>

(***************************************************************************)
(* app/api/admin/reminder-settings: POST sets attendanceReminderTime.      *)
(***************************************************************************)
IdleAdmin == [pc |-> "idle", value |-> Empty, idx |-> 0, resp |-> "none"]

\* Times of day HH:mm that the format check admits, as ticks of the day:
\* midnight and 09:10.
ReminderTimes == {0, DefaultReminderTick}

\* The request: verifyAdminKey, the format check, then setSetting's
\* values.get.
AdminPost ==
  /\ admin.pc \in {"idle", "done"}
  /\ \/ \E resp \in {"401", "400", "500"} :
          admin' = [IdleAdmin EXCEPT !.pc = "done", !.resp = resp]
     \/ \E v \in ReminderTimes :
          LET j == FindSetting(settings, ReminderTimeKey)
          IN  admin' = [IdleAdmin EXCEPT !.pc = "write", !.value = v,
                          !.idx = IF j = 0 THEN 0 ELSE SheetRow(j)]
  /\ UNCHANGED settings

\* setSetting: values.update or values.append answered
AdminWrite ==
  /\ admin.pc = "write"
  /\ \/ /\ settings' = UpsertWrite(settings, admin.idx,
                         SettingRow(ReminderTimeKey, admin.value))
        /\ admin' = [IdleAdmin EXCEPT !.pc = "done", !.resp = "ok"]
     \/ /\ admin' = [IdleAdmin EXCEPT !.pc = "done", !.resp = "500"]
        /\ UNCHANGED settings

\* The clock moves on, up to the first tick of tomorrow.
TickOver ==
  /\ now < StartOfDay + DayTicks
  /\ now' = now + 1
  /\ UNCHANGED <<attendance, queue, slack, req, out, fresh, run>>

(***************************************************************************)
(* lib/googleSheets: decisions on leave, overtime and short-leave          *)
(* requests.  A request row is addressed by the channel and timestamp of   *)
(* its Slack message.                                                      *)
(***************************************************************************)
RequestKinds == {"leave", "overtime", "shortLeave"}
MessageKeys == {"m1", "m2"}
Managers == {"M1", "M2"}

ReqRow(key, status, by, at) ==
  [key |-> key, status |-> status, by |-> by, at |-> at]

\* rows.forEach(...): the last row with the message's channel and timestamp
FindRequest(rows, key) ==
  IF \E i \in 1..Len(rows) : rows[i].key = key
    THEN CHOOSE i \in 1..Len(rows) :
           rows[i].key = key /\ \A j \in (i + 1)..Len(rows) : rows[j].key # key
    ELSE 0

\* Variant that takes only an approval for a decision.
IsApproved(row) == row.status = "Approved"

\* row[6] === 'Approved' || row[6] === 'Rejected' (row[8] for the other two)
IsDecided(row) == row.status = "Approved" \/ row.status = "Rejected"

IdleDecider ==
  [pc |-> "idle", calls |-> 0, kind |-> "none", idx |-> 0,
   row |-> ReqRow("", "", "", Empty), resp |-> "none",
   status |-> "", by |-> "", at |-> Empty]

\* The call returned: its locals are gone.
Decided(rec, resp, row) ==
  [IdleDecider EXCEPT !.pc = "done", !.calls = rec.calls, !.kind = rec.kind,
                      !.resp = resp, !.status = row.status, !.by = row.by,
                      !.at = row.at]

\* setLeaveDecision / setOvertimeDecision / setShortLeaveDecision: values.get
\* answered.  The clock reads one more with every call.
DecideRead ==
  /\ decider.pc \in {"idle", "done"}
  /\ decider.calls < MaxDecisions
  /\ \E kind \in RequestKinds, key \in MessageKeys \cup {"m0"},
        decision \in {"Approved", "Rejected"}, by \in Managers :
       LET rec == [IdleDecider EXCEPT !.calls = decider.calls + 1, !.kind = kind]
           j == FindRequest(ledgers[kind], key)
       IN  \/ /\ j = 0
              /\ decider' = Decided(rec, "notFound", IdleDecider.row)
           \/ /\ j # 0
              /\ IsDecided(ledgers[kind][j])
              /\ decider' = Decided(rec, IF kind = "leave" THEN "alreadyThrown"
                                         ELSE "alreadyDecided", ledgers[kind][j])
           \/ /\ j # 0
              /\ ~IsDecided(ledgers[kind][j])
              /\ decider' = [rec EXCEPT !.pc = "write", !.idx = SheetRow(j),
                               !.row = ReqRow(key, decision, by, rec.calls)]
           \/ decider' = Decided(rec, "error", IdleDecider.row)
  /\ UNCHANGED ledgers

\* values.update answered
DecideWrite ==
  /\ decider.pc = "write"
  /\ \/ /\ ledgers' = [ledgers EXCEPT ![decider.kind] =
                         UpdateRow(@, decider.idx, decider.row)]
        /\ decider' = Decided(decider, "decided", decider.row)
     \/ /\ decider' = Decided(decider, "error", IdleDecider.row)
        /\ UNCHANGED ledgers

(***************************************************************************)
(* app/api/cron/daily-report-reminder: one reminder a day to the channel.  *)
(***************************************************************************)
JobName == "daily-report-reminder"
CronRow(jobName, datePkt, ts) == [job |-> jobName, date |-> datePkt, ts |-> ts]

\* cronWasSentToday: some row has the job's name and the date
cronWasSentToday(rows, jobName, datePkt) ==
  \E i \in 1..Len(rows) : rows[i].job = jobName /\ rows[i].date = datePkt

IdleReporter ==
  [pc |-> "idle", calls |-> 0, datePkt |-> Empty, ts |-> 0, resp |-> "none"]

ReportDone(rec, resp) == [rec EXCEPT !.pc = "done", !.resp = resp, !.ts = 0]

\* The cron request: the secret and channel checks, today's date, and
\* cronWasSentToday's values.get.
ReportStart ==
  /\ reporter.pc \in {"idle", "done"}
  /\ reporter.calls < MaxCronCalls
  /\ LET rec == [IdleReporter EXCEPT !.calls = reporter.calls + 1,
                                     !.datePkt = getPkDateStr(now)]
     IN  \/ \E resp \in {"401", "500"} : reporter' = ReportDone(rec, resp)
         \/ reporter' =
              IF cronWasSentToday(cronLogs, JobName, rec.datePkt)
                THEN ReportDone(rec, "skipped")
                ELSE [rec EXCEPT !.pc = "post"]
  /\ UNCHANGED <<cronLogs, posts>>

\* chat.postMessage answered
ReportPost ==
  /\ reporter.pc = "post"
  /\ \/ /\ posts' = Append(posts, reporter.datePkt)
        /\ reporter' = [reporter EXCEPT !.pc = "log", !.ts = Len(posts) + 1]
     \/ /\ reporter' = ReportDone(reporter, "500")
        /\ UNCHANGED posts
  /\ UNCHANGED cronLogs

\* logCronSend: values.append answered
ReportLog ==
  /\ reporter.pc = "log"
  /\ \/ /\ cronLogs' = Append(cronLogs, CronRow(JobName, reporter.datePkt,
                                                 reporter.ts))
        /\ reporter' = ReportDone(reporter, "sent")
     \/ /\ reporter' = ReportDone(reporter, "500")
        /\ UNCHANGED cronLogs
  /\ UNCHANGED posts

(***************************************************************************)
(* The system specification.                                               *)
(***************************************************************************)
CronIdle ==
  /\ cronLogs = <<>>
  /\ posts = <<>>
  /\ reporter = IdleReporter

\* Two pending requests of each kind; no decision call yet.
PendingRequests == <<ReqRow("m1", "Pending", "", Empty), ReqRow("m2", "Pending", "", Empty)>>

DecIdle ==
  /\ ledgers = [kind \in RequestKinds |-> PendingRequests]
  /\ decider = IdleDecider

AdminIdle ==
  /\ settings = <<>>
  /\ admin = IdleAdmin

FmtIdle ==
  /\ fmtInput = 0
  /\ fmtResult = EmptyTotal

NoToken == [ok |-> FALSE, type |-> "", u |-> "", ts |-> TsEmpty, sig |-> EmptySig]
NoInput == [type |-> "", u |-> "", ts |-> TsEmpty, sig |-> EmptySig, at |-> 0,
            secret |-> NoSecret, tamper |-> "none"]

SigIdle ==
  /\ sigSecret = NoSecret
  /\ sigNow = 0
  /\ sigSteps = 0
  /\ sigIssued = NoToken
  /\ sigInput = NoInput
  /\ sigResult = "none"

NoClient == <<"none">>         \* getClientIp has not been called
NoCall == [fwd |-> NullText, reqIp |-> NullText, list |-> NullText]

IpIdle ==
  /\ ipInput = NoCall
  /\ ipClient = NoClient
  /\ ipAllowed = "none"

\* The reminder queue and Slack after the scheduler ran for the members `us`
\* today.
RECURSIVE ScheduledQueue(_)
ScheduledQueue(us) ==
  IF us = <<>> THEN <<>>
  ELSE ScheduledQueue(SubSeq(us, 1, Len(us) - 1)) \o
       <<QRow(getPkDateStr(StartOfDay), us[Len(us)], ImChannel(us[Len(us)]), Len(us),
              pkTimeToUtcEpochSeconds(getPkDateStr(StartOfDay), DefaultReminderTick),
              "scheduled")>>

RECURSIVE ScheduledSlack(_)
ScheduledSlack(us) ==
  IF us = <<>> THEN <<>>
  ELSE ScheduledSlack(SubSeq(us, 1, Len(us) - 1)) \o
       <<[channel |-> ImChannel(us[Len(us)]),
          postAt |-> pkTimeToUtcEpochSeconds(getPkDateStr(StartOfDay), DefaultReminderTick),
          state |-> "pending"]>>

\* Yesterday's row of the first roster member: checked in and out.
Yesterday ==
  <<CheckOutRow(CheckInRow(0, Roster[1], Roster[1]), StartOfDay - 1)>>

\* The attendance gate: the day's reminders are scheduled for the first
\* roster member; requests arrive.
Init ==
  /\ now = StartOfDay
  /\ attendance = Yesterday
  /\ queue = ScheduledQueue(SubSeq(Roster, 1, 1))
  /\ slack = ScheduledSlack(SubSeq(Roster, 1, 1))
  /\ req = [r \in ReqIds |-> IdleReq]
  /\ out = IdleReq
  /\ fresh = [u \in Users |-> 0]
  /\ run = [k \in RunIds |-> IdleRun]
  /\ SigIdle
  /\ IpIdle
  /\ AdminIdle
  /\ FmtIdle
  /\ DecIdle
  /\ CronIdle

Next ==
  \/ /\ Tick
     /\ UNCHANGED <<sigVars, ipVars, adminVars, fmtVars, decVars, cronVars>>
  \/ \E r \in ReqIds :
       /\ \/ Arrive(r)
          \/ CiRead(r)
          \/ CiAppend(r)
          \/ CiFind(r)
          \/ CiDelete(r)
          \/ CiMarkRead(r)
          \/ CiMarkWrite(r)
          \/ CoRead(r)
          \/ CoUpdate(r)
       /\ UNCHANGED <<sigVars, ipVars, adminVars, fmtVars, decVars, cronVars>>

Spec == Init /\ [][Next]_vars

\* The scheduler beside check-in requests, from empty sheets.
InitSched ==
  /\ now = StartOfDay
  /\ attendance = <<>>
  /\ queue = <<>>
  /\ slack = <<>>
  /\ req = [r \in ReqIds |-> IdleReq]
  /\ out = IdleReq
  /\ fresh = [u \in Users |-> 0]
  /\ run = [k \in RunIds |-> IdleRun]
  /\ SigIdle
  /\ IpIdle
  /\ AdminIdle
  /\ FmtIdle
  /\ DecIdle
  /\ CronIdle

NextSched ==
  \/ \E r \in ReqIds :
       /\ \/ ArriveCheckIn(r)
          \/ CiRead(r)
          \/ CiAppend(r)
          \/ CiFind(r)
          \/ CiDelete(r)
          \/ CiMarkRead(r)
          \/ CiMarkWrite(r)
       /\ UNCHANGED <<sigVars, ipVars, adminVars, fmtVars, decVars, cronVars>>
  \/ \E k \in RunIds :
       /\ \/ RunStart(k)
          \/ RunFind(k)
          \/ RunSchedule(k)
          \/ RunUpsertRead(k)
          \/ RunUpsertWrite(k)
       /\ UNCHANGED <<sigVars, ipVars, adminVars, fmtVars, decVars, cronVars>>

SpecSched == InitSched /\ [][NextSched]_vars

\* Scheduler runs that overlap (the cron trigger delivered twice, or a manual
\* call beside it): one run slot more than RunIds, from empty sheets.
OverlapIds == 1..(MaxRuns + 1)

InitOverlap ==
  /\ now = StartOfDay
  /\ attendance = <<>>
  /\ queue = <<>>
  /\ slack = <<>>
  /\ req = [r \in ReqIds |-> IdleReq]
  /\ out = IdleReq
  /\ fresh = [u \in Users |-> 0]
  /\ run = [k \in OverlapIds |-> IdleRun]
  /\ SigIdle
  /\ IpIdle
  /\ AdminIdle
  /\ FmtIdle
  /\ DecIdle
  /\ CronIdle

NextOverlap ==
  \E k \in OverlapIds :
    /\ \/ RunStart(k)
       \/ RunFind(k)
       \/ RunSchedule(k)
       \/ RunUpsertRead(k)
       \/ RunUpsertWrite(k)
    /\ UNCHANGED <<sigVars, ipVars, adminVars, fmtVars, decVars, cronVars>>

SpecOverlap == InitOverlap /\ [][NextOverlap]_vars

\* Overlapping scheduler runs beside the one reminder link opened from the
\* office, from empty sheets.
InitRace == InitOverlap

NextRace ==
  \/ \E r \in ReqIds :
       /\ \/ ArriveCheckIn(r)
          \/ CiRead(r)
          \/ CiAppend(r)
          \/ CiFind(r)
          \/ CiDelete(r)
          \/ CiMarkRead(r)
          \/ CiMarkWrite(r)
       /\ UNCHANGED <<sigVars, ipVars, adminVars, fmtVars, decVars, cronVars>>
  \/ \E k \in OverlapIds :
       /\ \/ RunStart(k)
          \/ RunFind(k)
          \/ RunSchedule(k)
          \/ RunUpsertRead(k)
          \/ RunUpsertWrite(k)
       /\ UNCHANGED <<sigVars, ipVars, adminVars, fmtVars, decVars, cronVars>>

SpecRace == InitRace /\ [][NextRace]_vars

\* The scheduler, one run at a time, while the reminder time is set through
\* the admin endpoint and the day ends, from empty sheets.
InitDay == InitSched

NextDay ==
  \/ /\ TickOver
     /\ UNCHANGED <<sigVars, ipVars, adminVars, fmtVars, decVars, cronVars>>
  \/ /\ \/ AdminPost
        \/ AdminWrite
     /\ UNCHANGED <<sysVars, sigVars, ipVars, fmtVars, decVars, cronVars>>
  \/ \E k \in {1} :
       /\ \/ RunStart(k)
          \/ RunFind(k)
          \/ RunSchedule(k)
          \/ RunUpsertRead(k)
          \/ RunUpsertWrite(k)
       /\ UNCHANGED <<sigVars, ipVars, adminVars, fmtVars, decVars, cronVars>>

SpecDay == InitDay /\ [][NextDay]_vars

\* Decision calls, one after the other, on the pending requests.
InitDecide == InitSched

NextDecide ==
  /\ \/ DecideRead
     \/ DecideWrite
  /\ UNCHANGED <<sysVars, sigVars, ipVars, adminVars, fmtVars, cronVars>>

SpecDecide == InitDecide /\ [][NextDecide]_vars

\* Invocations of the daily-report-reminder cron, one after the other,
\* while the clock moves on.
InitReport == InitSched

NextReport ==
  \/ /\ TickOver
     /\ UNCHANGED <<sigVars, ipVars, adminVars, fmtVars, decVars, cronVars>>
  \/ /\ \/ ReportStart
        \/ ReportPost
        \/ ReportLog
     /\ UNCHANGED <<sysVars, sigVars, ipVars, adminVars, fmtVars, decVars>>

SpecReport == InitReport /\ [][NextReport]_vars

\* Checkouts of a day on which the second roster member has checked in.
InitOut ==
  /\ now = StartOfDay
  /\ attendance = Yesterday \o <<CheckInRow(StartOfDay, Roster[2], Roster[2])>>
  /\ queue = <<>>
  /\ slack = <<>>
  /\ req = [r \in ReqIds |-> IdleReq]
  /\ out = IdleReq
  /\ fresh = [u \in Users |-> 0]
  /\ run = [k \in RunIds |-> IdleRun]
  /\ SigIdle
  /\ IpIdle
  /\ AdminIdle
  /\ FmtIdle
  /\ DecIdle
  /\ CronIdle

NextOut ==
  \/ /\ Tick
     /\ UNCHANGED <<sigVars, ipVars, adminVars, fmtVars, decVars, cronVars>>
  \/ \E r \in ReqIds :
       /\ \/ ArriveCheckOut(r)
          \/ CoRead(r)
          \/ CoUpdate(r)
       /\ UNCHANGED <<sigVars, ipVars, adminVars, fmtVars, decVars, cronVars>>

SpecOut == InitOut /\ [][NextOut]_vars

(***************************************************************************)
(* The signature specification: one link is issued, the clock moves, the   *)
(* deployment's secret changes, and the link is verified as issued or      *)
(* after one change to it.  sigInput and sigResult hold the latest call    *)
(* until the clock or the deployment moves on.                             *)
(***************************************************************************)
Secrets == {NoSecret, TheSecret}
Delays == {1, 60 * 1000, MaxAgeMs}
Skews == {0 - 1, 0}           \* verifying clock against the issuing clock
Tampers == {"none", "sigFlip", "sigShort", "sigEmpty", "sigForged", "user",
            "action", "tsLater", "tsAlt", "tsNaN", "tsEmpty"}

\* The query parameters presented after the change `tamper` to the link.
Tampered(tok, tamper) ==
  [type |-> IF tamper = "action" THEN Other(tok.type) ELSE tok.type,
   u    |-> IF tamper = "user" THEN OtherUser(tok.u) ELSE tok.u,
   ts   |-> CASE tamper = "tsLater" -> TsDec(NumberOf(tok.ts) + 60 * 1000)
              [] tamper = "tsAlt"   -> TsAlt(NumberOf(tok.ts))
              [] tamper = "tsNaN"   -> TsNaN
              [] tamper = "tsEmpty" -> TsEmpty
              [] OTHER              -> tok.ts,
   sig  |-> CASE tamper = "sigFlip"   -> [tok.sig EXCEPT !.flip = 1]
              [] tamper = "sigShort"  -> [tok.sig EXCEPT !.len = DigestLen - 1]
              [] tamper = "sigEmpty"  -> EmptySig
              [] tamper = "sigForged" ->
                   Hmac(OtherSecret, Payload(tok.type, tok.u, tok.ts))
              [] OTHER                -> tok.sig]

\* The process starts with the ATTENDANCE_SIGNING_SECRET of its deployment.
SigDeploy ==
  /\ \E s \in Secrets : s # sigSecret /\ sigSecret' = s
  /\ sigInput' = NoInput
  /\ sigResult' = "none"
  /\ UNCHANGED <<sigNow, sigSteps, sigIssued>>

SigAdvance ==
  /\ sigSteps < MaxAdvance
  /\ \E d \in Delays : sigNow' = sigNow + d
  /\ sigSteps' = sigSteps + 1
  /\ sigInput' = NoInput
  /\ sigResult' = "none"
  /\ UNCHANGED <<sigSecret, sigIssued>>

\* generateSignedAttendanceUrl returns a link (it throws without a secret)
SigIssue ==
  /\ sigIssued = NoToken
  /\ \E type \in {"checkin", "checkout"}, u \in Users :
       LET url == generateSignedAttendanceUrl(sigSecret, type, u, sigNow)
       IN  /\ url.ok
           /\ sigIssued' = url
  /\ UNCHANGED <<sigSecret, sigNow, sigSteps, sigInput, sigResult>>

\* verifySignedAttendanceRequest is called on the link
SigVerify ==
  /\ sigIssued # NoToken
  /\ \E tamper \in Tampers, skew \in Skews :
       LET inp == Tampered(sigIssued, tamper)
       IN  /\ sigInput' = [type |-> inp.type, u |-> inp.u, ts |-> inp.ts,
                           sig |-> inp.sig, at |-> sigNow + skew,
                           secret |-> sigSecret, tamper |-> tamper]
           /\ sigResult' = verifySignedAttendanceRequest(sigSecret, inp.type,
                             inp.u, inp.ts, inp.sig, sigNow + skew)
  /\ UNCHANGED <<sigSecret, sigNow, sigSteps, sigIssued>>

InitSig == InitSched

NextSig ==
  \/ /\ SigDeploy
     /\ UNCHANGED <<sysVars, ipVars, adminVars, fmtVars, decVars, cronVars>>
  \/ /\ SigAdvance
     /\ UNCHANGED <<sysVars, ipVars, adminVars, fmtVars, decVars, cronVars>>
  \/ /\ SigIssue
     /\ UNCHANGED <<sysVars, ipVars, adminVars, fmtVars, decVars, cronVars>>
  \/ /\ SigVerify
     /\ UNCHANGED <<sysVars, ipVars, adminVars, fmtVars, decVars, cronVars>>

SpecSig == InitSig /\ [][NextSig]_vars

(***************************************************************************)
(* The duration specification: recordCheckOut formats the time between the *)
(* first check-in and the checkout, a whole number of seconds that is not  *)
(* half a minute past a minute.                                            *)
(***************************************************************************)
SecondsPast == {0, 1, 29, 31, 59}
MinutesPast == {0, 1, 29, 58, 59}
Durations ==
  {(h * 3600 + m * 60 + sec) * 1000 :
     h \in 0..MaxHours, m \in MinutesPast, sec \in SecondsPast}

InitFmt ==
  /\ now = StartOfDay
  /\ attendance = <<>>
  /\ queue = <<>>
  /\ slack = <<>>
  /\ req = [r \in ReqIds |-> IdleReq]
  /\ out = IdleReq
  /\ fresh = [u \in Users |-> 0]
  /\ run = [k \in RunIds |-> IdleRun]
  /\ SigIdle
  /\ IpIdle
  /\ AdminIdle
  /\ fmtInput \in Durations
  /\ fmtResult = EmptyTotal
  /\ DecIdle
  /\ CronIdle

\* const totalHours = formatTotalHours(totalHoursDecimal)
FmtApply ==
  /\ fmtResult = EmptyTotal
  /\ fmtResult' = formatTotalHours(fmtInput)
  /\ UNCHANGED fmtInput

NextFmt ==
  /\ FmtApply
  /\ UNCHANGED <<sysVars, sigVars, ipVars, adminVars, decVars, cronVars>>

SpecFmt == InitFmt /\ [][NextFmt]_vars

(***************************************************************************)
(* The network-gate specification: a request with its x-forwarded-for      *)
(* header and req.ip reaches a deployment with its OFFICE_IP_ALLOWLIST;    *)
(* the route calls getClientIp on the request and isIpAllowed on the       *)
(* address that returns.                                                   *)
(***************************************************************************)
HeaderChars == {"a", "b", ",", " "}
HeaderTexts == UNION {[1..n -> HeaderChars] : n \in 0..MaxHeader}
Headers == {NullText} \cup HeaderTexts
RequestIps == {NullText, <<"a">>, <<" ", "a">>, <<"c">>}
Allowlists == {NullText, <<>>, <<",">>, <<" ", ",", " ">>, <<"a", "b">>,
               <<" ", "a", " ">>, OFFICE_IP_ALLOWLIST}

InitIp ==
  /\ now = StartOfDay
  /\ attendance = <<>>
  /\ queue = <<>>
  /\ slack = <<>>
  /\ req = [r \in ReqIds |-> IdleReq]
  /\ out = IdleReq
  /\ fresh = [u \in Users |-> 0]
  /\ run = [k \in RunIds |-> IdleRun]
  /\ SigIdle
  /\ ipInput \in [fwd : Headers, reqIp : RequestIps, list : Allowlists]
  /\ ipClient = NoClient
  /\ ipAllowed = "none"
  /\ AdminIdle
  /\ FmtIdle
  /\ DecIdle
  /\ CronIdle

\* const clientIp = getClientIp(req)
IpExtract ==
  /\ ipClient = NoClient
  /\ ipClient' = getClientIp(ipInput.fwd, ipInput.reqIp)
  /\ UNCHANGED <<ipInput, ipAllowed>>

\* isIpAllowed(clientIp)
IpCheck ==
  /\ ipClient # NoClient
  /\ ipAllowed = "none"
  /\ ipAllowed' = IF isIpAllowed(ipClient, ipInput.list) THEN "true" ELSE "false"
  /\ UNCHANGED <<ipInput, ipClient>>

NextIp ==
  \/ /\ IpExtract
     /\ UNCHANGED <<sysVars, sigVars, adminVars, fmtVars, decVars, cronVars>>
  \/ /\ IpCheck
     /\ UNCHANGED <<sysVars, sigVars, adminVars, fmtVars, decVars, cronVars>>

SpecIp == InitIp /\ [][NextIp]_vars

(***************************************************************************)
(* Properties.                                                             *)
(***************************************************************************)
\* The rows of `rows` that carry a check-in time for the day and user.
CheckedInRows(rows, date, user) ==
  {i \in 1..Len(rows) :
     rows[i].date = date /\ rows[i].user = user /\ rows[i].cin # Empty}

FirstOf(S) == CHOOSE i \in S : \A j \in S : i <= j

\* C1: a check-in that reads the sheet when it already holds a check-in row
\* for the user and day leaves the sheet as it is, appends nothing, and (unless
\* the read itself failed) answers "already checked in" with the time of the
\* first such row; no step ever changes the check-in time of a row or removes
\* a row.
C1_IdempotentCheckIn ==
  [][/\ \A r \in ReqIds :
          LET had == CheckedInRows(attendance, req[r].t \div DayTicks, req[r].u)
          IN  (req[r].pc = "ciRead" /\ req'[r] # req[r] /\ had # {}) =>
                /\ attendance' = attendance
                /\ req'[r].pc = "done"
                /\ out'.created = FALSE
                /\ out'.wrote = 0
                /\ out'.resp \in {"already", "error"}
                /\ out'.resp = "already" =>
                     out'.shown = attendance[FirstOf(had)].cin
      /\ Len(attendance') >= Len(attendance)
      /\ \A i \in 1..Len(attendance) : attendance'[i].cin = attendance[i].cin
    ]_vars

\* A second check-in of the user, one tick after the first, was answered with
\* the time of the first.
C1_Witness ==
  /\ out.kind = "checkin"
  /\ out.resp = "already"
  /\ now = StartOfDay + 1
  /\ out.shown = 0
  /\ fresh[out.u] = 1
  /\ Cardinality(CheckedInRows(attendance, getPkDateStr(now), out.u)) = 1

\* C2: for every user, at most one check-in request of the day saw its
\* check-in recorded afresh (created=true), and the sheet holds at most one
\* row with a check-in time for the user and day.
C2_AtomicCheckIn ==
  \A u \in Users :
    /\ fresh[u] <= 1
    /\ Cardinality(CheckedInRows(attendance, getPkDateStr(now), u)) <= 1

\* C3: a reminder queue row whose status is cancelled or sent never goes
\* back to scheduled.
C3_StatusMonotonic ==
  [][\A i \in 1..Len(queue) :
       queue[i].status \in {"cancelled", "sent"} =>
         queue'[i].status # "scheduled"]_vars

\* C4: a check-in that was recorded afresh, found the user's reminder entry
\* with status scheduled and saw no cancellation call fail asked Slack to
\* delete exactly that entry's message, once, and left the entry cancelled.
C4_CancelsReminderOnce ==
  (/\ out.kind = "checkin"
   /\ out.created
   /\ out.rem # NoReminder
   /\ out.rem.status = "scheduled"
   /\ ~out.remFail) =>
     /\ out.deletes = << <<out.rem.im, out.rem.msg>> >>
     /\ out.marked = "cancelled"
     /\ out.qwrote = 1
     /\ slack[out.rem.msg].state = "deleted"
     /\ \E i \in 1..Len(queue) :
          /\ queue[i].date = out.rem.date
          /\ queue[i].user = out.u
          /\ queue[i].msg = out.rem.msg
          /\ queue[i].status = "cancelled"

\* A fresh check-in of the member with the scheduled reminder returned after
\* cancelling it.
C4_Witness ==
  /\ out.kind = "checkin"
  /\ out.created
  /\ out.resp = "success"
  /\ out.rem # NoReminder
  /\ out.rem.status = "scheduled"
  /\ ~out.remFail
  /\ Len(out.deletes) = 1
  /\ out.marked = "cancelled"

\* C5: a fresh check-in during which the reminder lookup, the deletion of the
\* scheduled message or the status update failed still has its row in the
\* sheet and, unless the later announcement failed, returned the success page.
C5_CancelFailureSwallowed ==
  (/\ out.kind = "checkin"
   /\ out.created
   /\ out.remFail) =>
     /\ CheckedInRows(attendance, getPkDateStr(now), out.u) # {}
     /\ \/ out.resp = "success"
        \/ out.resp = "error" /\ out.posts = 1

\* A fresh check-in returned the success page although the deletion of the
\* scheduled message had been attempted and a cancellation call failed.
C5_Witness ==
  /\ out.kind = "checkin"
  /\ out.created
  /\ out.remFail
  /\ Len(out.deletes) = 1
  /\ out.resp = "success"
  /\ CheckedInRows(attendance, getPkDateStr(now), out.u) # {}

\* C6: a request that did not present an untampered, unexpired link of its
\* action and user from an office address never gets past the gate: it is
\* answered with a rejection or error page, no handler state survives it, and
\* it wrote no row, no queue status, deleted no message and posted nothing.
C6_RejectedNoEffect ==
  /\ \A r \in ReqIds : req[r].auth \in {"none", "ok"}
  /\ out.auth \in {"badToken", "badIp"} =>
       /\ out.resp \in {"invalid", "network", "error"}
       /\ out.created = FALSE
       /\ out.wrote = 0
       /\ out.qwrote = 0
       /\ out.deletes = <<>>
       /\ out.posts = 0

\* A checkout link opened from outside the office was rejected.
C6_Witness ==
  /\ out.auth = "badIp"
  /\ out.kind = "checkout"
  /\ out.resp = "network"

\* C7: the link as issued, verified under the secret it was issued with, is
\* accepted when its age at verification is between 0 and MaxAgeMs, both
\* included, and is refused (the result is false) at any other age.
C7_WindowInclusive ==
  (/\ sigResult # "none"
   /\ sigInput.tamper = "none"
   /\ sigInput.secret = sigIssued.sig.key) =>
     LET age == sigInput.at - NumberOf(sigIssued.ts)
     IN  /\ (0 <= age /\ age <= MaxAgeMs) => sigResult = "true"
         /\ (age < 0 \/ age > MaxAgeMs) => sigResult = "false"

\* The link was accepted exactly MaxAgeMs after it was issued.
C7_Witness ==
  /\ sigResult = "true"
  /\ sigInput.tamper = "none"
  /\ sigInput.at - NumberOf(sigIssued.ts) = MaxAgeMs

\* C8: verification of a link whose signature, user, timestamp or action
\* was changed after issuance returns false.
C8_TamperedIsFalse ==
  (sigResult # "none" /\ sigInput.tamper # "none") => sigResult = "false"

\* C9: verification never throws, and returns false whenever the secret is
\* not configured.
C9_NeverThrows ==
  /\ sigResult # "throw"
  /\ (sigResult # "none" /\ sigInput.secret = NoSecret) => sigResult = "false"

\* C11: a checkout that reads the sheet when the user's row of the day
\* already has a check-out time leaves the sheet as it is and (unless the read
\* itself failed) answers "already checked out" with the stored check-out
\* time and total.
C11_CheckoutOnce ==
  [][\A r \in ReqIds :
       LET had == CheckedInRows(attendance, req[r].t \div DayTicks, req[r].u)
       IN  (/\ req[r].pc = "coRead"
            /\ req'[r] # req[r]
            /\ had # {}
            /\ attendance[FirstOf(had)].cout # Empty) =>
              /\ attendance' = attendance
              /\ req'[r].pc = "done"
              /\ out'.created = FALSE
              /\ out'.wrote = 0
              /\ out'.resp \in {"alreadyOut", "error"}
              /\ out'.resp = "alreadyOut" =>
                   /\ out'.shown = attendance[FirstOf(had)].cout
                   /\ out'.total = attendance[FirstOf(had)].total
    ]_vars

\* A second checkout, one tick after the first, was answered with the time
\* and total the first had stored.
C11_Witness ==
  /\ out.kind = "checkout"
  /\ out.resp = "alreadyOut"
  /\ now = StartOfDay + 1
  /\ out.shown = 0
  /\ out.total = formatTotalHours(0)
  /\ \E i \in CheckedInRows(attendance, getPkDateStr(now), out.u) :
       attendance[i].last = StartOfDay

\* C12: every row with a check-out time has a check-in time, and its total
\* is the formatted difference, not negative, of its last check-out instant
\* and its first check-in instant.
C12_DurationNonNegative ==
  \A i \in 1..Len(attendance) :
    attendance[i].cout # Empty =>
      /\ attendance[i].cin # Empty
      /\ attendance[i].last - attendance[i].first >= 0
      /\ attendance[i].total =
           formatTotalHours((attendance[i].last - attendance[i].first) * TickMs)

\* The queue rows of the day and user.
EntriesOf(rows, date, user) ==
  {i \in 1..Len(rows) : rows[i].date = date /\ rows[i].user = user}

\* C13: a scheduler run that looks a member up when the member's entry of the
\* day has status scheduled counts the member as skipped (or, when the lookup
\* itself failed, as an error), schedules nothing and leaves the queue as it
\* is, and goes on to the next member.
C13_RerunSkips ==
  [][\A k \in RunIds :
       LET had == EntriesOf(queue, run[k].datePk, Roster[run[k].i])
       IN  (/\ run[k].pc = "find"
            /\ run'[k] # run[k]
            /\ had # {}
            /\ queue[FirstOf(had)].status = "scheduled") =>
              /\ queue' = queue
              /\ slack' = slack
              /\ run'[k].i = run[k].i + 1
              /\ run'[k].scheduled = run[k].scheduled
              /\ \/ /\ run'[k].skipped = run[k].skipped + 1
                    /\ run'[k].errors = run[k].errors
                 \/ /\ run'[k].skipped = run[k].skipped
                    /\ run'[k].errors = run[k].errors + 1
    ]_vars

\* A run over the roster, the first member already scheduled, answered
\* {scheduled: 1, skipped: 1, errors: 0}.
C13_Witness ==
  \E k \in RunIds :
    /\ run[k].pc = "done"
    /\ run[k].resp = "ok"
    /\ run[k].scheduled = 1
    /\ run[k].skipped = 1
    /\ run[k].errors = 0
    /\ Len(slack) = 2
    /\ \A i \in 1..Len(queue) : queue[i].status = "scheduled"

\* C14: a step of a run inside its member loop that counts an error counts
\* exactly one, for the current member, and goes on with the next member (or,
\* after the last, returns the aggregate answer); a run that has entered the
\* loop ends only after the last member, with the aggregate answer.
C14_FailureIsolated ==
  [][\A k \in RunIds :
       (run[k].pc \in {"find", "schedule", "upsertRead", "upsertWrite"}
          /\ run'[k] # run[k]) =>
         /\ run'[k].errors \in {run[k].errors, run[k].errors + 1}
         /\ run'[k].errors = run[k].errors + 1 =>
              /\ run'[k].i = run[k].i + 1
              /\ run'[k].scheduled = run[k].scheduled
              /\ run'[k].skipped = run[k].skipped
              /\ run[k].i < Len(Roster) => run'[k].pc = "find"
         /\ run'[k].pc = "done" =>
              /\ run[k].i = Len(Roster)
              /\ run'[k].resp = "ok"
         /\ run'[k].pc # "done" => run'[k].i \in 1..Len(Roster)
    ]_vars

\* A run in which the first member failed after its message was scheduled
\* went on to schedule the second member and returned the aggregate answer.
C14_Witness ==
  \E k \in RunIds :
    /\ run[k].pc = "done"
    /\ run[k].resp = "ok"
    /\ run[k].errors = 1
    /\ run[k].scheduled = 1
    /\ Len(slack) = 2
    /\ Len(queue) = 1
    /\ queue[1].user = Roster[2]

\* C15: the reminder queue holds at most one row per day and user.
C15_OneEntryPerKey ==
  \A i \in 1..Len(queue) :
    Cardinality(EntriesOf(queue, queue[i].date, queue[i].user)) <= 1

\* C16: a cron request that does not present the configured secret (no key,
\* another key, or no secret configured) is answered 401 at once: the run
\* reads no date and no roster, enters no member loop, and its step leaves the
\* queue and Slack's scheduled messages as they are.
C16_CronKeyRequired ==
  [][\A k \in DOMAIN run :
       (run'[k] # run[k] /\ run'[k].auth = "badKey") =>
         /\ run'[k].pc = "done"
         /\ run'[k].resp = "401"
         /\ run'[k].datePk = Empty
         /\ run'[k].scheduled = 0 /\ run'[k].skipped = 0 /\ run'[k].errors = 0
         /\ queue' = queue
         /\ slack' = slack
    ]_vars

\* A cron request without the secret was answered 401 after an earlier run
\* had scheduled a reminder, which is still pending and scheduled.
C16_Witness ==
  \E k \in RunIds :
    /\ run[k].auth = "badKey"
    /\ run[k].resp = "401"
    /\ Len(queue) >= 1
    /\ \A i \in 1..Len(queue) : queue[i].status = "scheduled"
    /\ \A i \in 1..Len(slack) : slack[i].state = "pending"

\* The text between the commas of `s` that starts at `i` and ends at `j`.
IsEntry(s, i, j) ==
  /\ i = 1 \/ s[i - 1] = ","
  /\ j = Len(s) \/ s[j + 1] = ","
  /\ \A k \in i..j : s[k] # ","

\* `s` without the blanks around it.
Strip(s) ==
  IF \A i \in 1..Len(s) : s[i] = " " THEN <<>>
  ELSE LET a == CHOOSE i \in 1..Len(s) :
                  s[i] # " " /\ \A j \in 1..(i - 1) : s[j] = " "
           b == CHOOSE i \in 1..Len(s) :
                  s[i] # " " /\ \A j \in (i + 1)..Len(s) : s[j] = " "
       IN  SubSeq(s, a, b)

\* The entries of the comma-separated text `s`, stripped, the empty ones left
\* out.
EntrySet(s) ==
  {Strip(SubSeq(s, i, j)) :
     <<i, j>> \in {p \in (1..(Len(s) + 1)) \X (0..Len(s)) :
                     p[2] >= p[1] - 1 /\ IsEntry(s, p[1], p[2])}} \ {<<>>}

\* The first entry of the comma-separated text `s`, stripped.
FirstEntry(s) ==
  Strip(SubSeq(s, 1, CHOOSE j \in 0..Len(s) : IsEntry(s, 1, j)))

\* C17: isIpAllowed is false when the address is null or empty, or when the
\* allowlist is not configured or has no entry; otherwise it is true exactly
\* when the address is equal, as a text, to one of the allowlist's
\* comma-separated entries, taken without the blanks around them and without
\* the empty ones.
C17_ExactMatch ==
  ipAllowed # "none" =>
    ((ipAllowed = "true") <=>
       /\ ipClient # NullText
       /\ ipClient # <<>>
       /\ ipInput.list # NullText
       /\ ipClient \in EntrySet(ipInput.list))

\* an address is admitted by its match with the second entry of "a, b,"
C17_Witness ==
  /\ ipAllowed = "true"
  /\ ipInput.list = OFFICE_IP_ALLOWLIST
  /\ ipClient = <<"b">>

\* C18 as stated: getClientIp returns the first address of the
\* x-forwarded-for chain when the header is present, and null when the
\* header is absent.
C18_FirstOrNull ==
  ipClient # NoClient =>
    IF ipInput.fwd = NullText
      THEN ipClient = NullText
      ELSE ipClient = FirstEntry(ipInput.fwd)

\* C18 as amended: getClientIp returns the first entry of the
\* x-forwarded-for chain, without the blanks around it and never a later
\* entry, when the header is present and not empty; when the header is
\* absent or empty it returns the request's own address (req.ip) if the
\* request has one, and null otherwise.
C18_FirstOrRequestIp ==
  ipClient # NoClient =>
    IF ipInput.fwd = NullText \/ ipInput.fwd = <<>>
      THEN ipClient = ipInput.reqIp
      ELSE ipClient = FirstEntry(ipInput.fwd)

\* the caller's address is taken from a chain that also names a proxy
C18_Witness ==
  /\ ipInput.fwd = <<" ", "a", ",", "b">>
  /\ ipClient = <<"a">>

\* The pages of the check-in and checkout handlers.
HtmlPages ==
  {"invalid", "network", "already", "noCheckIn", "alreadyOut", "success",
   "error"}

\* C19: every check-in and checkout request that returns does so with one of
\* the handler's HTML pages and status 200, whatever failed on its way
\* (parameters, verification, allowlist, users.info, the sheet, Slack): no
\* failure leaves the handler.
C19_AlwaysHtml200 ==
  out # IdleReq =>
    /\ out.pc = "done"
    /\ out.status = 200
    /\ out.resp \in HtmlPages

\* a checkout whose announcement failed after its row was written still
\* answers with a page
C19_Witness ==
  /\ out.kind = "checkout"
  /\ out.wrote = 1
  /\ out.posts = 1
  /\ out.resp = "error"
  /\ out.status = 200

\* C20: a check-in or checkout request completes or fails as a whole at the
\* write of its Attendance row: a request that returns the error page has
\* written no row, and a request that has written its row returns the
\* success page.
C20_AtomicAtLedgerWrite ==
  /\ out.resp = "error" => out.wrote = 0
  /\ out.wrote > 0 => out.resp = "success"

\* C21: the reminder is cancelled on the first claim only: a check-in request
\* that did not record its row afresh (it found the user checked in, or never
\* got that far) asks Slack for no deletion and writes no queue status,
\* whatever the status of the user's entry.
C21_CancelOnFirstClaimOnly ==
  /\ (out.kind = "checkin" /\ ~out.created) =>
        /\ out.deletes = <<>>
        /\ out.qwrote = 0
        /\ out.marked = "none"
  /\ \A r \in ReqIds :
        (req[r].kind = "checkin" /\ ~req[r].created) =>
          /\ req[r].deletes = <<>>
          /\ req[r].qwrote = 0

\* a repeated check-in is answered "already" while the entry whose
\* cancellation failed on the first check-in is still scheduled and its
\* message still pending
C21_Witness ==
  /\ out.kind = "checkin"
  /\ out.resp = "already"
  /\ out.deletes = <<>>
  /\ CheckedInRows(attendance, getPkDateStr(now), out.u) # {}
  /\ \E i \in 1..Len(queue) :
       /\ queue[i].user = out.u
       /\ queue[i].date = getPkDateStr(now)
       /\ queue[i].status = "scheduled"
       /\ slack[queue[i].msg].state = "pending"

\* C22: a reminder-queue entry has status cancelled only if Slack was asked
\* to delete that entry's scheduled message and did so beforehand.
C22_CancelledOnlyAfterDelete ==
  \A i \in 1..Len(queue) :
    queue[i].status = "cancelled" =>
      /\ queue[i].msg \in 1..Len(slack)
      /\ slack[queue[i].msg].channel = queue[i].im
      /\ slack[queue[i].msg].state = "deleted"

\* The members a run has counted so far.
Counted(rec) == rec.scheduled + rec.skipped + rec.errors

\* C23: a scheduler run counts each roster member in exactly one of
\* scheduled, skipped and errors, so that a completed run's three counters add
\* up to the size of the roster; and it counts a member as scheduled exactly
\* in the step that writes the member's queue entry, with status scheduled
\* and the handle of the message the run scheduled.
C23_CountersPartition ==
  [][\A k \in RunIds :
       (run[k].pc \in {"find", "schedule", "upsertRead", "upsertWrite"}
          /\ run'[k] # run[k]) =>
         /\ run'[k].scheduled >= run[k].scheduled
         /\ run'[k].skipped >= run[k].skipped
         /\ run'[k].errors >= run[k].errors
         /\ Counted(run'[k]) = run'[k].i - 1
         /\ run'[k].pc = "done" => Counted(run'[k]) = Len(Roster)
         /\ (run'[k].scheduled = run[k].scheduled + 1) <=>
              /\ queue' # queue
              /\ \E j \in 1..Len(queue') :
                   /\ queue'[j].date = run[k].datePk
                   /\ queue'[j].user = Roster[run[k].i]
                   /\ queue'[j].msg = run[k].msg
                   /\ queue'[j].status = "scheduled"
    ]_vars

\* a completed run scheduled every member of the roster and wrote an entry
\* for each
C23_Witness ==
  \E k \in RunIds :
    /\ run[k].pc = "done"
    /\ run[k].resp = "ok"
    /\ run[k].scheduled = Len(Roster)
    /\ Counted(run[k]) = Len(Roster)
    /\ Len(queue) = Len(Roster)
    /\ \A j \in 1..Len(queue) :
         queue[j].user = Roster[j] /\ queue[j].status = "scheduled"

\* The reminder time in force: the value of the first Settings row with the
\* key, 09:10 without one.
TimeInForce ==
  LET S == {i \in 1..Len(settings) : settings[i].key = ReminderTimeKey}
  IN  IF S = {} THEN DefaultReminderTick ELSE settings[FirstOf(S)].value

\* The rows of the queue that a step wrote.
Written(j) == j > Len(queue) \/ queue'[j] # queue[j]

\* C24: a scheduler run derives its date and its target instant once, when
\* it starts (today's date, and the reminder time then in force on that date
\* at UTC+5), and keeps them to its end; every message it schedules and every
\* entry it writes carries that date and that instant, whatever happens to
\* the setting or the clock meanwhile.
C24_DerivedOncePerRun ==
  [][\A k \in RunIds :
       /\ (run[k].pc \in {"idle", "done"} /\ run'[k].pc = "find") =>
            /\ run'[k].datePk = now \div DayTicks
            /\ run'[k].postAt = (now \div DayTicks) * DayTicks + TimeInForce
       /\ (run[k].pc \in {"find", "schedule", "upsertRead", "upsertWrite"}) =>
            /\ run'[k].datePk = run[k].datePk
            /\ run'[k].postAt = run[k].postAt
            /\ run'[k] # run[k] =>
                 /\ \A j \in 1..Len(queue') :
                      Written(j) => /\ queue'[j].date = run[k].datePk
                                    /\ queue'[j].postAt = run[k].postAt
                 /\ \A m \in (Len(slack) + 1)..Len(slack') :
                      slack'[m].postAt = run[k].postAt
    ]_vars

\* a run wrote the entries of both members with one date and one instant
\* although the day had ended and the setting had changed before it wrote
\* the second
C24_Witness ==
  \E k \in RunIds :
    /\ run[k].pc = "done"
    /\ run[k].scheduled = Len(Roster)
    /\ now \div DayTicks # run[k].datePk
    /\ TimeInForce # run[k].postAt - run[k].datePk * DayTicks
    /\ Len(queue) = Len(Roster)
    /\ \A j \in 1..Len(queue) :
         queue[j].date = run[k].datePk /\ queue[j].postAt = run[k].postAt

\* No scheduler run and no request is between two of its calls.
Quiet ==
  /\ \A k \in DOMAIN run : run[k].pc \in {"idle", "done"}
  /\ \A r \in ReqIds : req[r].pc \in {"idle", "done"}

\* C25: each scheduled message that is still pending with Slack is the one
\* whose handle stands in the queue entry of its day and user, with status
\* scheduled; hence at most one message is pending per user and day.  Stated
\* for the states in which no run or request is in flight, where a message
\* cannot be waiting for its entry to be written.
C25_PendingIsQueued ==
  Quiet =>
    /\ \A m \in 1..Len(slack) :
         slack[m].state = "pending" =>
           \E i \in 1..Len(queue) :
             /\ queue[i].msg = m
             /\ queue[i].im = slack[m].channel
             /\ queue[i].date = slack[m].postAt \div DayTicks
             /\ queue[i].status = "scheduled"
    /\ \A m, n \in 1..Len(slack) :
         (/\ slack[m].state = "pending"
          /\ slack[n].state = "pending"
          /\ slack[m].channel = slack[n].channel
          /\ slack[m].postAt \div DayTicks = slack[n].postAt \div DayTicks) =>
            m = n

\* No call of the check-in that returned or of a run on record has failed.
NothingFailed ==
  /\ out.resp \in {"none", "success", "already"}
  /\ ~out.remFail
  /\ \A k \in DOMAIN run : run[k].errors = 0 /\ run[k].resp \in {"none", "ok"}

\* C26: when no run or request is in flight and no call has failed, a user
\* with a check-in row for today has no queue entry for today with status
\* scheduled, in whichever order the scheduler's runs and the check-in took
\* their steps.
C26_CheckedInNotScheduled ==
  (Quiet /\ NothingFailed) =>
    \A u \in Users :
      CheckedInRows(attendance, getPkDateStr(now), u) # {} =>
        \A i \in 1..Len(queue) :
          (queue[i].user = u /\ queue[i].date = getPkDateStr(now)) =>
            queue[i].status # "scheduled"

\* C27: the checkout of a day and user is claimed once, however two checkout
\* requests for it interleave: a row that has its check-out time is not
\* written again, and a request records a fresh checkout (and announces it)
\* only when the user's row has no check-out time yet.
C27_CheckoutAtomic ==
  [][/\ \A i \in 1..Len(attendance) :
          attendance[i].cout # Empty => attendance'[i] = attendance[i]
     /\ \A r \in ReqIds :
          (/\ req[r].pc = "coUpdate"
           /\ req'[r].pc = "done"
           /\ out'.created) =>
             \A i \in CheckedInRows(attendance, req[r].t \div DayTicks, req[r].u) :
               attendance[i].cout = Empty
    ]_vars

\* C28: for a duration that is not negative, formatTotalHours gives hours h
\* and minutes m with 0 <= m <= 59 and h * 60 + m the duration rounded to the
\* nearest minute; the stored total never shows 60 minutes.
C28_MinutesBelowSixty ==
  fmtResult # EmptyTotal =>
    /\ fmtResult.m \in 0..59
    /\ fmtResult.h >= 0
    /\ fmtResult.h * 60 + fmtResult.m = (fmtInput + 30000) \div 60000

\* C29: a leave, overtime or short-leave request is decided at most once:
\* once its row has status Approved or Rejected, a later decision call for it
\* leaves the row's status, decider and decision time as they are;
\* setLeaveDecision fails with "already decided", the other two return
\* alreadyDecided with the decision on record.
C29_DecidedOnce ==
  [][\A kind \in RequestKinds :
       \A i \in 1..Len(ledgers[kind]) :
         ledgers[kind][i].status \in {"Approved", "Rejected"} =>
           /\ ledgers'[kind][i] = ledgers[kind][i]
           /\ (/\ decider'.pc = "write"
               /\ decider'.kind = kind) => decider'.row.key # ledgers[kind][i].key
           /\ (/\ decider' # decider
               /\ decider'.kind = kind
               /\ decider'.resp \in {"alreadyThrown", "alreadyDecided"}) =>
                 /\ decider'.resp = "alreadyThrown" <=> kind = "leave"
                 /\ \E j \in 1..Len(ledgers[kind]) :
                      /\ decider'.status = ledgers[kind][j].status
                      /\ decider'.by = ledgers[kind][j].by
                      /\ decider'.at = ledgers[kind][j].at
    ]_vars

\* the second manager's rejection of an overtime request that the first had
\* approved returned the approval on record
C29_Witness ==
  /\ decider.pc = "done"
  /\ decider.kind = "overtime"
  /\ decider.resp = "alreadyDecided"
  /\ decider.status = "Approved"
  /\ decider.by = "M1"
  /\ decider.at = 1
  /\ decider.calls = 2
  /\ ledgers["overtime"][1] = ReqRow("m1", "Approved", "M1", 1)

\* C30: over invocations of the daily-report-reminder cron that follow one
\* another, whichever calls fail, the reminder is posted to the channel at
\* most once for a date.
C30_PostedOncePerDay ==
  \A i, j \in 1..Len(posts) : posts[i] = posts[j] => i = j

\* C10: a checkout that reads the sheet when it holds no row with a check-in
\* time for the user and day writes nothing and (unless the read itself
\* failed) is answered with the "no check-in found" page.
C10_CheckoutNeedsCheckIn ==
  [][\A r \in ReqIds :
       (/\ req[r].pc = "coRead"
        /\ req'[r] # req[r]
        /\ CheckedInRows(attendance, req[r].t \div DayTicks, req[r].u) = {}) =>
          /\ attendance' = attendance
          /\ req'[r].pc = "done"
          /\ out'.resp \in {"noCheckIn", "error"}
          /\ out'.created = FALSE
          /\ out'.wrote = 0
    ]_vars

\* The member whose only row is yesterday's was told to check in first.
C10_Witness ==
  /\ out.kind = "checkout"
  /\ out.u = Roster[1]
  /\ out.resp = "noCheckIn"
  /\ CheckedInRows(attendance, getPkDateStr(now), out.u) = {}
  /\ attendance = Yesterday

====
